---- MODULE Spec2Model ----
(***************************************************************************)
(* Model of productivity_bot/inbound_message_helpers.py: the dispatcher    *)
(* handle_inbound_message and the session operations start_active_loop,    *)
(* end_active_loop, in_active_loop and log_user_response, over the User,   *)
(* ActiveLoops and UserResponses tables.                                   *)
(*                                                                         *)
(* A text is a sequence of Unicode code points; a token is a text          *)
(* without whitespace.  A call either returns a reply or raises: its       *)
(* outcome is [kind |-> "return" | "raise", value |-> reply or exception]. *)
(* Rows written before an exception is raised stay written (Django's       *)
(* default autocommit).                                                    *)
(***************************************************************************)
EXTENDS FiniteSets, Integers, Sequences, TLC

VARIABLES users, loops, seq, responses, last, prev, procs

vars == <<users, loops, seq, responses, last, prev, procs>>

----------------------------------------------------------------------------
(* Bounds *)

\* number of concurrent request handlers in SpecConc
MaxProcs == 2

\* the greatest key given to an ActiveLoops row: a call that would need a
\* greater one is not taken
MaxKey == 3

----------------------------------------------------------------------------
(* Reply strings and templates.  A template is a sequence of segments; the *)
(* segment "%s" is a conversion specifier.                                 *)

COMMAND_ERROR == "Sorry, that was an invalid command."
SESSION_BEGIN == <<"Working session has begun! To end the session, say \"stop\"">>
SESSION_END == <<"Working session has ended! See a summary of your work here: ", "%s">>
NO_SESSION_REPLY == "I can't believe you've done this"
LOGGED_REPLY == "Response has been logged!"
summary_link == "google.com"

Return(v) == [kind |-> "return", value |-> v]
Raise(e) == [kind |-> "raise", value |-> e]

\* template % arg, for arg a single (non-tuple) value
RECURSIVE Specifiers(_)
Specifiers(tpl) ==
    IF tpl = <<>> THEN 0
    ELSE (IF Head(tpl) = "%s" THEN 1 ELSE 0) + Specifiers(Tail(tpl))

RECURSIVE Substitute(_, _)
Substitute(tpl, arg) ==
    IF tpl = <<>> THEN ""
    ELSE (IF Head(tpl) = "%s" THEN arg ELSE Head(tpl)) \o Substitute(Tail(tpl), arg)

PyFormat(tpl, arg) ==
    IF Specifiers(tpl) = 1 THEN Return(Substitute(tpl, arg))
    ELSE Raise("TypeError")

----------------------------------------------------------------------------
(* Texts *)

\* the characters str.split() separates on (str.isspace)
Whitespace ==
    {9, 10, 11, 12, 13, 28, 29, 30, 31, 32, 133, 160, 5760} \cup (8192..8202)
        \cup {8232, 8233, 8239, 8287, 12288}

\* the decimal digits of Unicode come in runs of ten, zero to nine; these are
\* the code points of the zeros (48 is "0")
DecimalStarts ==
    { 48, 1632, 1776, 1984, 2406, 2534, 2662, 2790, 2918, 3046, 3174,
      3302, 3430, 3558, 3664, 3792, 3872, 4160, 4240, 6112, 6160, 6470,
      6608, 6784, 6800, 6992, 7088, 7232, 7248, 42528, 43216, 43264,
      43472, 43504, 43600, 44016, 65296, 66720, 68912, 69734, 69872,
      69942, 70096, 70384, 70736, 70864, 71248, 71360, 71472, 71904,
      72016, 72784, 73040, 73120, 92768, 92864, 93008, 120782, 120792,
      120802, 120812, 120822, 123200, 123632, 125264, 130032 }

\* the characters for which str.isdecimal() is true
Decimals == UNION {b..(b + 9) : b \in DecimalStarts}

IsDecimal(c) == c \in Decimals

\* the digits that are not decimal digits (superscripts, circled digits, ...)
OtherDigits ==
    (178..179) \cup {185} \cup (4969..4977) \cup {6618} \cup {8304} \cup (8308..8313)
        \cup (8320..8329) \cup (9312..9320) \cup (9332..9340) \cup (9352..9360)
        \cup {9450} \cup (9461..9469) \cup {9471} \cup (10102..10110)
        \cup (10112..10120) \cup (10122..10130) \cup (68160..68163)
        \cup (69216..69224) \cup (69714..69722) \cup (127232..127242)

\* the characters for which str.isdigit() is true
Digits == Decimals \cup OtherDigits

DigitValue(c) == c - (CHOOSE b \in DecimalStarts : b <= c /\ c <= b + 9)

\* str.split(): the maximal runs of non-whitespace characters, in order
RECURSIVE SplitFrom(_, _, _)
SplitFrom(text, cur, acc) ==
    IF text = <<>> THEN (IF cur = <<>> THEN acc ELSE Append(acc, cur))
    ELSE IF Head(text) \in Whitespace
         THEN SplitFrom(Tail(text), <<>>, IF cur = <<>> THEN acc ELSE Append(acc, cur))
         ELSE SplitFrom(Tail(text), Append(cur, Head(text)), acc)

split(text) == SplitFrom(text, <<>>, <<>>)

\* str.isdigit(): non-empty and every character a digit
isdigit(tok) == tok # <<>> /\ \A i \in 1..Len(tok) : tok[i] \in Digits

\* the value of a numeral; 95 is "_", which separates digits
RECURSIVE DecimalValue(_, _)
DecimalValue(tok, acc) ==
    IF tok = <<>> THEN acc
    ELSE IF Head(tok) = 95 THEN DecimalValue(Tail(tok), acc)
    ELSE DecimalValue(Tail(tok), 10 * acc + DigitValue(Head(tok)))

\* a token without its sign; 43 is "+", 45 is "-"
Unsigned(tok) == IF tok # <<>> /\ Head(tok) \in {43, 45} THEN Tail(tok) ELSE tok

\* decimal digits, with single underscores between digits
NumeralOk(body) ==
    /\ body # <<>>
    /\ IsDecimal(body[1]) /\ IsDecimal(body[Len(body)])
    /\ \A i \in 1..Len(body) : IsDecimal(body[i]) \/ body[i] = 95
    /\ \A i \in 1..(Len(body) - 1) : ~(body[i] = 95 /\ body[i + 1] = 95)

\* int(tok) for a token: an optional sign followed by a numeral; anything
\* else raises ValueError
IntOk(tok) == NumeralOk(Unsigned(tok))

int(tok) ==
    IF Head(tok) = 45 THEN 0 - DecimalValue(Tail(tok), 0)
    ELSE DecimalValue(Unsigned(tok), 0)

----------------------------------------------------------------------------
(* Tokens and the inbound texts the model draws from *)

START == <<115, 116, 97, 114, 116>>
STOP == <<115, 116, 111, 112>>
HOURS == <<104, 111, 117, 114, 115>>
FOO == <<102, 111, 111>>
BAR == <<98, 97, 114>>
BAZ == <<98, 97, 122>>
ABC == <<97, 98, 99>>
NOW == <<110, 111, 119>>
SP == <<32>>
TAB == <<9>>
CR == <<13>>
\* the numerals 3, 5, 0 and 0_3, the Arabic-Indic digit three and the
\* superscript two
N3 == <<51>>
N5 == <<53>>
N0 == <<48>>
N0_3 == <<48, 95, 51>>
AR3 == <<1635>>
SUP2 == <<178>>

Messages ==
    { START \o SP \o N3 \o SP \o HOURS,
      START \o SP \o N5 \o SP \o HOURS,
      START \o SP \o N0 \o SP \o HOURS,
      START \o SP \o AR3 \o SP \o HOURS,
      START \o SP \o SUP2 \o SP \o HOURS,
      START \o SP \o ABC \o SP \o HOURS,
      START \o SP \o ABC \o SP \o FOO,
      START \o SP \o N3 \o SP \o FOO,
      START \o SP \o N0_3 \o SP \o FOO,
      START \o SP \o N3,
      STOP,
      TAB \o STOP \o SP \o NOW \o CR,
      FOO \o SP \o BAR \o SP \o BAZ,
      SP }

\* the (space_name, user_name) pairs that send messages
Identities ==
    { <<"spaces/A", "users/1">>, <<"spaces/B", "users/1">> }

----------------------------------------------------------------------------
(* The store: User and ActiveLoops rows.  Keys are given in increasing     *)
(* order and never given again (AUTOINCREMENT): seq is the last key given  *)
(* to an ActiveLoops row; User rows are never deleted, so the last key     *)
(* given to one is the greatest key in the table.                          *)

False == [pk |-> 0, user |-> 0, mssg_freq |-> 0, mins_to_mssg |-> 0]

Pks(rows) == {r.pk : r \in rows}

MaxPk(rows) ==
    IF rows = {} THEN 0 ELSE CHOOSE k \in Pks(rows) : \A q \in Pks(rows) : q <= k

LowestPk(rows) == CHOOSE r \in rows : \A q \in rows : r.pk <= q.pk

\* variant: the rows are not restricted to the user
filter_All(loopsT, user) == loopsT

\* ActiveLoops.objects.filter(user=user)
filter(loopsT, user) == {r \in loopsT : r.user = user.pk}

\* row.delete(): DELETE ... WHERE id = row.pk
delete(loopsT, row) == {r \in loopsT : r.pk # row.pk}

\* whether the ActiveLoops table enforces one row per user.  The source neither
\* relies on nor mentions such a constraint (it reads the rows of a user with
\* filter(...)[0]), and the design notes say the source has no per-user
\* exclusion.
ActiveLoopsUnique == FALSE

\* INSERT is refused (IntegrityError) only under a uniqueness constraint
SaveAllowed(loopsT, user) == ~ActiveLoopsUnique \/ filter(loopsT, user) = {}

\* ActiveLoops(user=..., mssg_freq=..., mins_to_mssg=...).save()
save(loopsT, seqT, user, freq, mins) ==
    loopsT \cup {[pk |-> seqT + 1, user |-> user.pk,
                  mssg_freq |-> freq, mins_to_mssg |-> mins]}

\* whether the User table enforces one row per (space_name, user_name) pair.
\* The source passes the two fields to get_or_create and names no constraint,
\* and the design notes say no uniqueness is enforced on them.
UsersUnique == FALSE

\* the SELECT of get_or_create: the User rows of the pair
get(usersT, space_name, user_name) ==
    {u \in usersT : u.space_name = space_name /\ u.user_name = user_name}

\* the INSERT of get_or_create: the new User row
create(usersT, space_name, user_name) ==
    [pk |-> MaxPk(usersT) + 1, space_name |-> space_name, user_name |-> user_name]

\* variant: a User row is created on every call
get_or_create_AlwaysCreate(usersT, space_name, user_name) ==
    LET new == create(usersT, space_name, user_name)
    IN  [users |-> usersT \cup {new}, user |-> new, out |-> Return("")]

\* User.objects.get_or_create(space_name=..., user_name=...)
get_or_create(usersT, space_name, user_name) ==
    LET found == get(usersT, space_name, user_name)
        new == create(usersT, space_name, user_name)
    IN  IF Cardinality(found) = 1
        THEN [users |-> usersT, user |-> CHOOSE u \in found : TRUE, out |-> Return("")]
        ELSE IF found = {}
        THEN [users |-> usersT \cup {new}, user |-> new, out |-> Return("")]
        ELSE [users |-> usersT, user |-> new, out |-> Raise("MultipleObjectsReturned")]

----------------------------------------------------------------------------
(* Session operations.  Each yields the tables after the call and the      *)
(* call's outcome.                                                         *)

in_active_loop(loopsT, user) ==
    LET active_loop == filter(loopsT, user)
    IN  IF active_loop # {} THEN LowestPk(active_loop) ELSE False

\* variant: the existing loop is left in place
DeleteExisting_Skip(loopsT, active_loop) == loopsT

\* lines 88-89: the table once an existing loop of the user is deleted
DeleteExisting(loopsT, active_loop) ==
    IF active_loop.pk # 0 THEN delete(loopsT, active_loop) ELSE loopsT

\* variant: a user already in a session keeps it
start_active_loop_KeepOld(loopsT, seqT, user, mssg_freq) ==
    LET active_loop == in_active_loop(loopsT, user)
    IN  IF ~IntOk(mssg_freq)
        THEN [loops |-> loopsT, seq |-> seqT, out |-> Raise("ValueError")]
        ELSE IF active_loop.pk # 0
        THEN [loops |-> loopsT, seq |-> seqT, out |-> PyFormat(SESSION_BEGIN, mssg_freq)]
        ELSE [loops |-> save(loopsT, seqT, user, int(mssg_freq), (0 - 1) * int(mssg_freq)),
              seq |-> seqT + 1, out |-> PyFormat(SESSION_BEGIN, mssg_freq)]

\* variant: the countdown seed is not negated
start_active_loop_PositiveSeed(loopsT, seqT, user, mssg_freq) ==
    LET active_loop == in_active_loop(loopsT, user)
        loops1 == DeleteExisting(loopsT, active_loop)
    IN  IF ~IntOk(mssg_freq)
        THEN [loops |-> loops1, seq |-> seqT, out |-> Raise("ValueError")]
        ELSE [loops |-> save(loops1, seqT, user, int(mssg_freq), int(mssg_freq)),
              seq |-> seqT + 1, out |-> PyFormat(SESSION_BEGIN, mssg_freq)]

start_active_loop(loopsT, seqT, user, mssg_freq) ==
    LET active_loop == in_active_loop(loopsT, user)
        loops1 == DeleteExisting(loopsT, active_loop)
    IN  IF ~IntOk(mssg_freq)
        THEN [loops |-> loops1, seq |-> seqT, out |-> Raise("ValueError")]
        ELSE IF ~SaveAllowed(loops1, user)
        THEN [loops |-> loops1, seq |-> seqT, out |-> Raise("IntegrityError")]
        ELSE [loops |-> save(loops1, seqT, user, int(mssg_freq), (0 - 1) * int(mssg_freq)),
              seq |-> seqT + 1, out |-> PyFormat(SESSION_BEGIN, mssg_freq)]

\* variant: the reply is produced but the row is not deleted
end_active_loop_NoDelete(loopsT, user) ==
    LET active_loop == in_active_loop(loopsT, user)
    IN  IF active_loop.pk = 0
        THEN [loops |-> loopsT, out |-> Return(NO_SESSION_REPLY)]
        ELSE [loops |-> loopsT, out |-> PyFormat(SESSION_END, summary_link)]

end_active_loop(loopsT, user) ==
    LET active_loop == in_active_loop(loopsT, user)
    IN  IF active_loop.pk = 0
        THEN [loops |-> loopsT, out |-> Return(NO_SESSION_REPLY)]
        ELSE [loops |-> delete(loopsT, active_loop),
              out |-> PyFormat(SESSION_END, summary_link)]

\* the body is a stub: nothing is written to the UserResponses table
log_user_response(respT, user, text) ==
    [responses |-> respT, out |-> Return(LOGGED_REPLY)]

----------------------------------------------------------------------------
(* The dispatcher.  route names the operation the message was handed to.   *)

StartInvalid(mssg) ==
    Len(mssg) # 3 \/ ~(isdigit(mssg[2]) \/ mssg[3] # HOURS)

\* variant: only the single token is a valid stop
StopInvalid_Strict(loopsT, user, mssg) == Len(mssg) # 1

\* variant: a multi-token stop is refused when the sender is in a session
StopInvalid_Inverted(loopsT, user, mssg) ==
    Len(mssg) # 1 /\ in_active_loop(loopsT, user).pk # 0

StopInvalid(loopsT, user, mssg) ==
    Len(mssg) # 1 /\ in_active_loop(loopsT, user).pk = 0

\* variant: the in-session gate is missing
LogInvalid_Never(loopsT, user) == FALSE

LogInvalid(loopsT, user) == in_active_loop(loopsT, user).pk = 0

\* variant: a start message reaches start_active_loop before it is validated
Dispatch_StartFirst(usersT, loopsT, respT, seqT, user, mssg) ==
    LET same == [users |-> usersT, loops |-> loopsT, seq |-> seqT, responses |-> respT]
    IN  IF mssg = <<>>
        THEN same @@ [out |-> Raise("IndexError"), route |-> "none"]
        ELSE IF mssg[1] = START
        THEN IF Len(mssg) < 2
             THEN same @@ [out |-> Return(COMMAND_ERROR), route |-> "none"]
             ELSE LET r == start_active_loop(loopsT, seqT, user, mssg[2])
                  IN  IF StartInvalid(mssg)
                      THEN [users |-> usersT, loops |-> r.loops, seq |-> r.seq,
                            responses |-> respT,
                            out |-> Return(COMMAND_ERROR), route |-> "none"]
                      ELSE [users |-> usersT, loops |-> r.loops, seq |-> r.seq, responses |-> respT,
                            out |-> r.out, route |-> "start"]
        ELSE IF mssg[1] = STOP
        THEN IF StopInvalid(loopsT, user, mssg)
             THEN same @@ [out |-> Return(COMMAND_ERROR), route |-> "none"]
             ELSE LET r == end_active_loop(loopsT, user)
                  IN  [users |-> usersT, loops |-> r.loops, seq |-> seqT, responses |-> respT,
                       out |-> r.out, route |-> "stop"]
        ELSE IF LogInvalid(loopsT, user)
             THEN same @@ [out |-> Return(COMMAND_ERROR), route |-> "none"]
             ELSE LET r == log_user_response(respT, user, mssg)
                  IN  [users |-> usersT, loops |-> loopsT, seq |-> seqT,
                       responses |-> r.responses, out |-> r.out, route |-> "log"]

\* variant: logging a response consumes the sender's session
Dispatch_LogEnds(usersT, loopsT, respT, seqT, user, mssg) ==
    LET same == [users |-> usersT, loops |-> loopsT, seq |-> seqT, responses |-> respT]
    IN  IF mssg = <<>>
        THEN same @@ [out |-> Raise("IndexError"), route |-> "none"]
        ELSE IF mssg[1] = START
        THEN IF StartInvalid(mssg)
             THEN same @@ [out |-> Return(COMMAND_ERROR), route |-> "none"]
             ELSE LET r == start_active_loop(loopsT, seqT, user, mssg[2])
                  IN  [users |-> usersT, loops |-> r.loops, seq |-> r.seq, responses |-> respT,
                       out |-> r.out, route |-> "start"]
        ELSE IF mssg[1] = STOP
        THEN IF StopInvalid(loopsT, user, mssg)
             THEN same @@ [out |-> Return(COMMAND_ERROR), route |-> "none"]
             ELSE LET r == end_active_loop(loopsT, user)
                  IN  [users |-> usersT, loops |-> r.loops, seq |-> seqT, responses |-> respT,
                       out |-> r.out, route |-> "stop"]
        ELSE IF LogInvalid(loopsT, user)
             THEN same @@ [out |-> Return(COMMAND_ERROR), route |-> "none"]
             ELSE LET r == log_user_response(respT, user, mssg)
                  IN  [users |-> usersT,
                       loops |-> delete(loopsT, in_active_loop(loopsT, user)),
                       seq |-> seqT, responses |-> r.responses, out |-> r.out, route |-> "log"]

Dispatch(usersT, loopsT, respT, seqT, user, mssg) ==
    LET same == [users |-> usersT, loops |-> loopsT, seq |-> seqT, responses |-> respT]
    IN  IF mssg = <<>>
        THEN same @@ [out |-> Raise("IndexError"), route |-> "none"]
        ELSE IF mssg[1] = START
        THEN IF StartInvalid(mssg)
             THEN same @@ [out |-> Return(COMMAND_ERROR), route |-> "none"]
             ELSE LET r == start_active_loop(loopsT, seqT, user, mssg[2])
                  IN  [users |-> usersT, loops |-> r.loops, seq |-> r.seq, responses |-> respT,
                       out |-> r.out, route |-> "start"]
        ELSE IF mssg[1] = STOP
        THEN IF StopInvalid(loopsT, user, mssg)
             THEN same @@ [out |-> Return(COMMAND_ERROR), route |-> "none"]
             ELSE LET r == end_active_loop(loopsT, user)
                  IN  [users |-> usersT, loops |-> r.loops, seq |-> seqT, responses |-> respT,
                       out |-> r.out, route |-> "stop"]
        ELSE IF LogInvalid(loopsT, user)
             THEN same @@ [out |-> Return(COMMAND_ERROR), route |-> "none"]
             ELSE LET r == log_user_response(respT, user, mssg)
                  IN  [users |-> usersT, loops |-> loopsT, seq |-> seqT,
                       responses |-> r.responses, out |-> r.out, route |-> "log"]

handle_inbound_message(usersT, loopsT, respT, seqT, mssg_text, user_name, space_name) ==
    LET mssg == split(mssg_text)
        g == get_or_create(usersT, space_name, user_name)
    IN  IF g.out.kind = "raise"
        THEN [users |-> g.users, loops |-> loopsT, seq |-> seqT, responses |-> respT,
              out |-> g.out, route |-> "none", mssg |-> mssg]
        ELSE Dispatch(g.users, loopsT, respT, seqT, g.user, mssg) @@ [mssg |-> mssg]

----------------------------------------------------------------------------
(* State *)

\* the ActiveLoops rows owned by the User rows of an identity
LoopsOf(usersT, loopsT, space_name, user_name) ==
    {r \in loopsT : \E u \in usersT :
        u.pk = r.user /\ u.space_name = space_name /\ u.user_name = user_name}

\* the session parameters carried by a set of ActiveLoops rows
Sessions(rows) == {[mssg_freq |-> r.mssg_freq, mins_to_mssg |-> r.mins_to_mssg] : r \in rows}

NoCall ==
    [space_name |-> "", user_name |-> "", text |-> <<>>, mssg |-> <<>>, pre |-> {},
     out |-> [kind |-> "none", value |-> ""], route |-> "none"]

NoPrev ==
    [space_name |-> "", user_name |-> "", mssg |-> <<>>,
     out |-> [kind |-> "none", value |-> ""]]

Procs == 1..MaxProcs

NoUser == [pk |-> 0, space_name |-> "", user_name |-> ""]

IdleProc ==
    [pc |-> "idle", user |-> NoUser, mssg_freq |-> <<>>, active_loop |-> False,
     out |-> [kind |-> "none", value |-> ""]]

Init ==
    /\ users = {}
    /\ loops = {}
    /\ seq = 0
    /\ responses = {}
    /\ last = NoCall
    /\ prev = NoPrev
    /\ procs = [p \in Procs |-> IdleProc]

\* one inbound message, handled from start to end
Receive ==
    \E id \in Identities, mssg_text \in Messages :
        \E r \in {handle_inbound_message(users, loops, responses, seq, mssg_text, id[2], id[1])} :
            /\ r.seq <= MaxKey
            /\ users' = r.users
            /\ loops' = r.loops
            /\ seq' = r.seq
            /\ responses' = r.responses
            /\ prev' = [space_name |-> last.space_name, user_name |-> last.user_name,
                        mssg |-> last.mssg, out |-> last.out]
            /\ last' = [space_name |-> id[1], user_name |-> id[2], text |-> mssg_text,
                        mssg |-> r.mssg,
                        pre |-> Sessions(LoopsOf(users, loops, id[1], id[2])),
                        out |-> r.out, route |-> r.route]
            /\ UNCHANGED procs

Next == Receive

Spec == Init /\ [][Next]_vars

----------------------------------------------------------------------------
(* Concurrent handling of start messages: each handler runs lines 35-47    *)
(* and 88-97 one store statement at a time, interleaved with the others.   *)

\* the texts of the concurrent calls: those the dispatcher hands to
\* start_active_loop, among four of the inbound texts
StartMessages ==
    {m \in { START \o SP \o N3 \o SP \o HOURS,
             START \o SP \o N5 \o SP \o HOURS,
             START \o SP \o ABC \o SP \o FOO,
             START \o SP \o ABC \o SP \o HOURS } \cap Messages :
        split(m) # <<>> /\ split(m)[1] = START /\ ~StartInvalid(split(m))}

\* the handlers inside a call
InFlight == {p \in Procs : procs[p].pc \notin {"idle", "done"}}

\* lines 35-39: split the text and SELECT the User of the pair; with one row
\* found the message is accepted (lines 41-46) and start_active_loop entered
ConcCall(p) ==
    /\ procs[p].pc = "idle"
    /\ seq + Cardinality(InFlight) < MaxKey
    /\ \E id \in Identities, mssg_text \in StartMessages :
        LET found == get(users, id[1], id[2])
            call == [pc |-> "exists", user |-> NoUser,
                     mssg_freq |-> split(mssg_text)[2], active_loop |-> False,
                     out |-> [kind |-> "none", value |-> ""]]
        IN  procs' = [procs EXCEPT ![p] =
                IF Cardinality(found) = 1
                THEN [call EXCEPT !.user = CHOOSE u \in found : TRUE]
                ELSE IF found = {}
                THEN [call EXCEPT !.pc = "insert",
                                  !.user = [pk |-> 0, space_name |-> id[1],
                                            user_name |-> id[2]]]
                ELSE [call EXCEPT !.pc = "done",
                                  !.out = Raise("MultipleObjectsReturned")]]
    /\ UNCHANGED <<users, loops, seq, responses, last, prev>>

\* lines 36-39, the INSERT of get_or_create when the SELECT found no row; an
\* INSERT refused under a uniqueness constraint is followed by a second SELECT
ConcInsert(p) ==
    /\ procs[p].pc = "insert"
    /\ LET found == get(users, procs[p].user.space_name, procs[p].user.user_name)
           new == create(users, procs[p].user.space_name, procs[p].user.user_name)
       IN  IF UsersUnique /\ found # {}
           THEN /\ UNCHANGED users
                /\ procs' = [procs EXCEPT ![p].pc = "exists",
                                          ![p].user = CHOOSE u \in found : TRUE]
           ELSE /\ users' = users \cup {new}
                /\ procs' = [procs EXCEPT ![p].pc = "exists", ![p].user = new]
    /\ UNCHANGED <<loops, seq, responses, last, prev>>

\* line 149, active_loop.exists()
ConcExists(p) ==
    /\ procs[p].pc = "exists"
    /\ procs' = [procs EXCEPT ![p].pc =
                    IF filter(loops, procs[p].user) # {} THEN "fetch" ELSE "create"]
    /\ UNCHANGED <<users, loops, seq, responses, last, prev>>

\* line 149, active_loop[0]: a second query; IndexError when the row is gone
ConcFetch(p) ==
    /\ procs[p].pc = "fetch"
    /\ procs' = [procs EXCEPT ![p] =
                    IF filter(loops, procs[p].user) # {}
                    THEN [@ EXCEPT !.pc = "delete",
                                   !.active_loop = LowestPk(filter(loops, procs[p].user))]
                    ELSE [@ EXCEPT !.pc = "done", !.out = Raise("IndexError")]]
    /\ UNCHANGED <<users, loops, seq, responses, last, prev>>

\* line 89
ConcDelete(p) ==
    /\ procs[p].pc = "delete"
    /\ loops' = DeleteExisting(loops, procs[p].active_loop)
    /\ procs' = [procs EXCEPT ![p].pc = "create"]
    /\ UNCHANGED <<users, seq, responses, last, prev>>

\* lines 91-95
ConcCreate(p) ==
    /\ procs[p].pc = "create"
    /\ IF ~IntOk(procs[p].mssg_freq)
       THEN /\ procs' = [procs EXCEPT ![p].pc = "done", ![p].out = Raise("ValueError")]
            /\ UNCHANGED <<loops, seq>>
       ELSE IF ~SaveAllowed(loops, procs[p].user)
       THEN /\ procs' = [procs EXCEPT ![p].pc = "done", ![p].out = Raise("IntegrityError")]
            /\ UNCHANGED <<loops, seq>>
       ELSE /\ loops' = save(loops, seq, procs[p].user, int(procs[p].mssg_freq),
                             (0 - 1) * int(procs[p].mssg_freq))
            /\ seq' = seq + 1
            /\ procs' = [procs EXCEPT ![p].pc = "format"]
    /\ UNCHANGED <<users, responses, last, prev>>

\* line 97
ConcFormat(p) ==
    /\ procs[p].pc = "format"
    /\ procs' = [procs EXCEPT ![p].pc = "done",
                              ![p].out = PyFormat(SESSION_BEGIN, procs[p].mssg_freq)]
    /\ UNCHANGED <<users, loops, seq, responses, last, prev>>

\* the call has ended; the handler is free for the next message
ConcReturn(p) ==
    /\ procs[p].pc = "done"
    /\ procs' = [procs EXCEPT ![p] = IdleProc]
    /\ UNCHANGED <<users, loops, seq, responses, last, prev>>

NextConc ==
    \E p \in Procs :
        \/ ConcCall(p)
        \/ ConcInsert(p)
        \/ ConcExists(p)
        \/ ConcFetch(p)
        \/ ConcDelete(p)
        \/ ConcCreate(p)
        \/ ConcFormat(p)
        \/ ConcReturn(p)

SpecConc == Init /\ [][NextConc]_vars

----------------------------------------------------------------------------
(* Properties.  They speak of the last call: its sender, its tokens, the   *)
(* sender's sessions before it (last.pre) and after it.                    *)

Called == last.out.kind # "none"
Tokens == last.mssg
SenderLoops == LoopsOf(users, loops, last.space_name, last.user_name)
SamePrevSender == prev.space_name = last.space_name /\ prev.user_name = last.user_name

BeginReply == "Working session has begun! To end the session, say \"stop\""
EndReply == "Working session has ended! See a summary of your work here: google.com"
InvalidReply == "Sorry, that was an invalid command."

\* a string of decimal digits
DecimalString(tok) == tok # <<>> /\ \A i \in 1..Len(tok) : IsDecimal(tok[i])

\* `start N hours` with N a string of decimal digits
WellFormedStart(toks) ==
    Len(toks) = 3 /\ toks[1] = START /\ DecimalString(toks[2]) /\ toks[3] = HOURS

\* C1: handling messages one at a time, every User owns at most one
\* ActiveLoops row.
C1_AtMostOneSession ==
    \A u \in users : Cardinality({r \in loops : r.user = u.pk}) <= 1

\* a start was accepted from a user who was already in a session
C1_Witness ==
    /\ last.route = "start"
    /\ last.pre # {}
    /\ Cardinality(SenderLoops) = 1

\* C2: every call on a text with at least one token returns a reply and
\* raises nothing.
C2_NeverRaises ==
    (Called /\ Tokens # <<>>) => last.out.kind = "return"

\* C3: `start N hours` from a user without a session leaves the user in a
\* session of ping frequency N and returns the begin-session text.
C3_StartFromNoSession ==
    (Called /\ WellFormedStart(Tokens) /\ last.pre = {}) =>
        /\ {r.mssg_freq : r \in SenderLoops} = {int(Tokens[2])}
        /\ Cardinality(SenderLoops) = 1
        /\ last.out = Return(BeginReply)

\* C4: `start N hours` from a user in a session of frequency M replaces the
\* session: the user then has exactly one ActiveLoops row, of frequency N.
C4_StartReplaces ==
    (Called /\ WellFormedStart(Tokens) /\ last.pre # {}) =>
        /\ Cardinality(SenderLoops) = 1
        /\ \A r \in SenderLoops : r.mssg_freq = int(Tokens[2])

\* a session of another frequency was replaced
C4_Witness ==
    /\ Called /\ WellFormedStart(Tokens)
    /\ \E s \in last.pre : s.mssg_freq # int(Tokens[2])
    /\ {r.mssg_freq : r \in SenderLoops} = {int(Tokens[2])}

\* C5: `stop` from a user in a session ends it and returns the end-session
\* reply; `stop` again from the same user, with no message in between,
\* returns the no-session reply and the user still has no session.
C5_StopTwice ==
    /\ (Called /\ Tokens = <<STOP>> /\ last.pre # {}) =>
            (SenderLoops = {} /\ last.out = Return(EndReply))
    /\ (Called /\ Tokens = <<STOP>> /\ SamePrevSender
            /\ prev.mssg = <<STOP>> /\ prev.out = Return(EndReply)) =>
            (last.pre = {} /\ SenderLoops = {}
                /\ last.out = Return("I can't believe you've done this"))

\* the second of two consecutive stops, the first of which ended a session
C5_Witness ==
    /\ Called /\ Tokens = <<STOP>> /\ SamePrevSender
    /\ prev.mssg = <<STOP>> /\ prev.out = Return(EndReply)
    /\ last.out = Return("I can't believe you've done this")
    /\ SenderLoops = {}

\* C6: a message that is neither start nor stop, from a user in a session,
\* creates a LoggedResponse of that user with that text and is acknowledged.
C6_LogRecorded ==
    (Called /\ Tokens # <<>> /\ Tokens[1] \notin {START, STOP} /\ last.pre # {}) =>
        /\ last.out = Return("Response has been logged!")
        /\ \E resp \in responses :
              /\ \E u \in users : /\ u.pk = resp.user
                                  /\ u.space_name = last.space_name
                                  /\ u.user_name = last.user_name
              /\ split(resp.text) = Tokens

\* C7: a message that is neither start nor stop, from a user without a
\* session, gets the invalid-command reply, starts no session and records
\* no LoggedResponse.
C7_LogOutsideSession ==
    (Called /\ Tokens # <<>> /\ Tokens[1] \notin {START, STOP} /\ last.pre = {}) =>
        /\ last.out = Return(InvalidReply)
        /\ SenderLoops = {}
        /\ responses = {}

C7_Witness ==
    /\ Called /\ Tokens = <<FOO, BAR, BAZ>> /\ last.pre = {}
    /\ last.out = Return(InvalidReply)
    /\ SenderLoops = {}

\* C8: a message whose first token is start and which is not `start N hours`
\* gets the invalid-command reply and leaves the sender's session as it was.
C8_MalformedStartRejected ==
    (Called /\ Tokens # <<>> /\ Tokens[1] = START /\ ~WellFormedStart(Tokens)) =>
        /\ last.out = Return(InvalidReply)
        /\ Sessions(SenderLoops) = last.pre

\* C9 as stated: a message whose first token is stop is handed to
\* end_active_loop iff it is one token or the sender has no session.
C9_Original ==
    (Called /\ Tokens # <<>> /\ Tokens[1] = STOP) =>
        /\ (last.route = "stop") <=> (Len(Tokens) = 1 \/ last.pre = {})
        /\ Len(Tokens) > 1 => ((last.out = Return(InvalidReply)) <=> last.pre # {})

\* C9 amended: a message whose first token is stop is handed to
\* end_active_loop iff it is one token or the sender HAS a session; a
\* multi-token stop gets the invalid-command reply exactly when the sender has
\* no session.
C9_StopValidity ==
    (Called /\ Tokens # <<>> /\ Tokens[1] = STOP) =>
        /\ (last.route = "stop") <=> (Len(Tokens) = 1 \/ last.pre # {})
        /\ Len(Tokens) > 1 => ((last.out = Return(InvalidReply)) <=> last.pre = {})

\* a multi-token stop ended the sender's session
C9_Witness ==
    /\ Called /\ Tokens = <<STOP, NOW>> /\ last.pre # {}
    /\ last.route = "stop"
    /\ last.out = Return(EndReply)
    /\ SenderLoops = {}

\* C10: once all concurrently handled start calls have finished, every user
\* has at most one ActiveLoops row.
C10_AtMostOneAfterConcurrentStarts ==
    (\A p \in Procs : procs[p].pc \in {"idle", "done"}) =>
        \A u \in users : Cardinality({r \in loops : r.user = u.pk}) <= 1

\* the User rows of a (space_name, user_name) pair
UsersOf(usersT, space_name, user_name) ==
    {u \in usersT : u.space_name = space_name /\ u.user_name = user_name}

\* C11: a message never deletes a User; the first message of a
\* (space_name, user_name) pair creates its one User and nothing else, every
\* later message of the pair resolves to that User and creates none; so no
\* pair ever has two User rows.
C11_OneUserPerPair ==
    [][ /\ users \subseteq users'
        /\ Cardinality(UsersOf(users', last'.space_name, last'.user_name)) = 1
        /\ users' \ users \subseteq UsersOf(users', last'.space_name, last'.user_name)
        /\ UsersOf(users, last'.space_name, last'.user_name) # {} => users' = users
        /\ \A id \in Identities : Cardinality(UsersOf(users', id[1], id[2])) <= 1
      ]_vars

\* both pairs have sent messages, the last sender for at least the second
\* time in a row, and each has its one User
C11_Witness ==
    /\ Called /\ SamePrevSender
    /\ Cardinality(users) = 2
    /\ \A id \in Identities : Cardinality(UsersOf(users, id[1], id[2])) = 1

\* C12: every ActiveLoops row has a ping frequency of at least 1.
C12_PositiveFrequency ==
    \A r \in loops : r.mssg_freq >= 1

\* C13: a message changes no ActiveLoops row of a User other than its
\* sender's: for every other User the rows, with their frequency and seed, are
\* the same after the message as before it.
C13_OtherUsersUntouched ==
    [][ \A u \in users' :
            (u.space_name # last'.space_name \/ u.user_name # last'.user_name) =>
                {r \in loops' : r.user = u.pk} = {r \in loops : r.user = u.pk}
      ]_vars

\* a start replaced the sender's session while another user was in a session
C13_Witness ==
    /\ last.route = "start" /\ last.pre # {} /\ SenderLoops # {}
    /\ \E u \in users :
          /\ (u.space_name # last.space_name \/ u.user_name # last.user_name)
          /\ {r \in loops : r.user = u.pk} # {}

\* C14: a user without a session gets one only by a message whose first
\* token is start, a user in a session loses it only by a message whose first
\* token is stop, and every message handed to start_active_loop leaves the
\* sender in a session.
C14_Lifecycle ==
    Called =>
        /\ (last.pre = {} /\ SenderLoops # {}) => (Tokens # <<>> /\ Tokens[1] = START)
        /\ (last.pre # {} /\ SenderLoops = {}) => (Tokens # <<>> /\ Tokens[1] = STOP)
        /\ last.route = "start" => SenderLoops # {}

\* C15: every message handed to start_active_loop carries a frequency token
\* of decimal digits, and the conversion of the frequency does not fail.
C15_FrequencyValidated ==
    last.route = "start" =>
        /\ DecimalString(Tokens[2])
        /\ last.out # Raise("ValueError")

\* C16: a message whose first token is stop gets the invalid-command reply
\* only when it has more than one token and the sender has no session; a
\* multi-token stop from a sender in a session deletes the session and
\* returns the end-session reply.
C16_PermissiveStop ==
    (Called /\ Tokens # <<>> /\ Tokens[1] = STOP) =>
        /\ last.out = Return(InvalidReply) => (Len(Tokens) > 1 /\ last.pre = {})
        /\ (Len(Tokens) > 1 /\ last.pre # {}) =>
                (SenderLoops = {} /\ last.out = Return(EndReply))

\* `stop now` was taken as a stop and ended the one session of its sender
C16_Witness ==
    /\ Called /\ Len(Tokens) = 2 /\ Tokens[1] = STOP
    /\ Cardinality(last.pre) = 1
    /\ SenderLoops = {}
    /\ last.out.kind = "return" /\ last.out.value = EndReply

\* C17: in every ActiveLoops row the countdown seed is the negation of the
\* row's ping frequency.
C17_SeedIsNegatedFrequency ==
    \A r \in loops : r.mins_to_mssg = 0 - r.mssg_freq

\* a start has saved a row of a frequency other than zero
C17_Witness ==
    /\ last.route = "start"
    /\ \E r \in SenderLoops : r.mssg_freq = 3 /\ r.mins_to_mssg = 0 - 3

\* C18: a call that returns the invalid-command reply has created, replaced
\* and deleted no ActiveLoops row, of any user.
C18_InvalidChangesNothing ==
    [][ last'.out = Return(InvalidReply) => loops' = loops ]_vars

\* the invalid-command reply went to a sender in a session, who still has it
C18_Witness ==
    /\ last.out = Return(InvalidReply)
    /\ last.pre # {}
    /\ Sessions(SenderLoops) = last.pre

\* C19: a message whose first token is neither start nor stop leaves the
\* sender's session as it was, in existence, ping frequency and seed, whether
\* or not the sender is in a session.
C19_LogReadsOnly ==
    (Called /\ Tokens # <<>> /\ Tokens[1] \notin {START, STOP}) =>
        /\ Sessions(SenderLoops) = last.pre
        /\ Cardinality(SenderLoops) = Cardinality(last.pre)

\* a response was acknowledged and the sender is still in the same session
C19_Witness ==
    /\ Called /\ Tokens = <<FOO, BAR, BAZ>>
    /\ last.route = "log"
    /\ last.pre # {}
    /\ Sessions(SenderLoops) = last.pre

====
